---- MODULE Spec2Model ----
(***************************************************************************)
(* Text2SQL: the query-normalization and intent-validation pipeline of    *)
(* src/main.py (extract_sql_query, identify_query_type,                    *)
(* remove_unwanted_where_clause, validate_query_intent,                    *)
(* generate_sql_with_llm, process_query) and the Query Sanitizer of        *)
(* src/db.py (DatabaseConnection.execute_query).                           *)
(*                                                                         *)
(* Strings are sequences of tokens.  A token is a literal piece of text:   *)
(* a keyword ("SELECT", "select"), a one-letter identifier ("x"), a digit  *)
(* ("1"), a blank (" "), a punctuation character (";", ".").  The          *)
(* text a sequence stands for is the concatenation of its tokens.  The     *)
(* alphabets are chosen so that no keyword the code searches for can       *)
(* begin inside one token and end inside another, hence a substring        *)
(* search of the code is a sub-sequence search here.                       *)
(***************************************************************************)
EXTENDS Integers, Sequences, FiniteSets, TLC

VARIABLES
    pc,            \* position of the request / of the function under check
    query_text,    \* NaturalQuery.query: the natural-language text
    llm_response,  \* RawGenerationText: the generator's text
    candidate,     \* statement handed to validate_query_intent
    sql_query,     \* sql_query of process_query / result of the function
    submitted,     \* argument of execute_sql (None before the call)
    normalized,    \* text DatabaseConnection.execute_query hands to the driver
    gen_calls,     \* number of requests.post calls made for the request
    exec_calls,    \* number of execute_sql calls made for the request
    gen_status,    \* how the generation call ended ("none" before it)
    exec_status,   \* how the execute_sql call ended ("none" before it)
    response       \* the SQLResponse returned (NoResponse before)

vars == <<pc, query_text, llm_response, candidate, sql_query, submitted,
          normalized, gen_calls, exec_calls, gen_status, exec_status, response>>

----------------------------------------------------------------------------
(* Bounds of the input sets.                                               *)

MaxRawLen == 4

MaxTextLen == 3

MaxQueryLen == 3

MaxSanLen == 5

----------------------------------------------------------------------------
(* Python values.                                                          *)

\* Python's None for an Optional[str]; "None" is a token of no alphabet.
None == <<"None">>

\* `not s` of Python for an Optional[str]: None or the empty string.
Falsy(s) == s = None \/ s = <<>>

\* SQLResponse(sql_query, is_valid, results, error); error and results are
\* None when not given.
SQLResponse(q, valid, results, error) ==
    [sql_query |-> q, is_valid |-> valid, results |-> results, error |-> error]

\* The value of response while process_query has not returned.
NoResponse == SQLResponse(None, FALSE, None, None)

\* All token sequences of length 0..n over alphabet A.
SeqsUpTo(A, n) == UNION {[1..k -> A] : k \in 0..n}

----------------------------------------------------------------------------
(* Character classes of the tokens.                                        *)

\* Tokens made of digits only (\d of re).
DigitTokens == {"1", "3", "5"}

\* The backtick character (a string of this notation cannot hold one).
Backtick == "<backtick>"

\* Whitespace tokens (\s of re, str.strip).
SpaceTokens == {" ", "\n"}

\* The punctuation characters among the tokens.
PunctTokens == {";", ",", "*", ".", "=", "'", "\"", "-", "+", "(", ")", ">", Backtick}

\* Every other token is a word: letters, digits and underscores only (\w of re).
IsWord(t) == t \notin SpaceTokens \cup PunctTokens

\* str.upper on one token.
UpperTok(t) ==
    CASE t = "Delete" -> "DELETE"
      [] t = "Get" -> "GET"
      [] t = "Schools" -> "SCHOOLS"
      [] t = "Show" -> "SHOW"
      [] t = "This" -> "THIS"
      [] t = "a" -> "A"
      [] t = "above" -> "ABOVE"
      [] t = "after" -> "AFTER"
      [] t = "all" -> "ALL"
      [] t = "are" -> "ARE"
      [] t = "b" -> "B"
      [] t = "before" -> "BEFORE"
      [] t = "below" -> "BELOW"
      [] t = "between" -> "BETWEEN"
      [] t = "contains" -> "CONTAINS"
      [] t = "details" -> "DETAILS"
      [] t = "ends" -> "ENDS"
      [] t = "equal" -> "EQUAL"
      [] t = "from" -> "FROM"
      [] t = "get" -> "GET"
      [] t = "greater" -> "GREATER"
      [] t = "has" -> "HAS"
      [] t = "is" -> "IS"
      [] t = "less" -> "LESS"
      [] t = "like" -> "LIKE"
      [] t = "matches" -> "MATCHES"
      [] t = "name" -> "NAME"
      [] t = "rating" -> "RATING"
      [] t = "returns" -> "RETURNS"
      [] t = "rows" -> "ROWS"
      [] t = "school" -> "SCHOOL"
      [] t = "schools" -> "SCHOOLS"
      [] t = "select" -> "SELECT"
      [] t = "show" -> "SHOW"
      [] t = "sql" -> "SQL"
      [] t = "starts" -> "STARTS"
      [] t = "t" -> "T"
      [] t = "th" -> "TH"
      [] t = "than" -> "THAN"
      [] t = "the" -> "THE"
      [] t = "to" -> "TO"
      [] t = "update" -> "UPDATE"
      [] t = "where" -> "WHERE"
      [] t = "whose" -> "WHOSE"
      [] t = "with" -> "WITH"
      [] t = "x" -> "X"
      [] OTHER -> t

\* str.lower on one token.
LowerTok(t) ==
    CASE t = "A" -> "a"
      [] t = "ALL" -> "all"
      [] t = "BY" -> "by"
      [] t = "DELETE" -> "delete"
      [] t = "Delete" -> "delete"
      [] t = "FROM" -> "from"
      [] t = "Get" -> "get"
      [] t = "INSERT" -> "insert"
      [] t = "INTO" -> "into"
      [] t = "LIMIT" -> "limit"
      [] t = "ORDER" -> "order"
      [] t = "SCHOOLS" -> "schools"
      [] t = "SELECT" -> "select"
      [] t = "SET" -> "set"
      [] t = "SHOW" -> "show"
      [] t = "Schools" -> "schools"
      [] t = "Show" -> "show"
      [] t = "This" -> "this"
      [] t = "UPDATE" -> "update"
      [] t = "VALUES" -> "values"
      [] t = "WHERE" -> "where"
      [] OTHER -> t

Upper(s) == [i \in 1..Len(s) |-> UpperTok(s[i])]

Lower(s) == [i \in 1..Len(s) |-> LowerTok(s[i])]

----------------------------------------------------------------------------
(* str methods.                                                            *)

\* s[i:] starts with p  (indices from 1).
MatchesAt(s, p, i) ==
    /\ i + Len(p) - 1 <= Len(s)
    /\ \A k \in 1..Len(p) : s[i + k - 1] = p[k]

\* s.startswith(p)
StartsWith(s, p) == MatchesAt(s, p, 1)

\* s.endswith(p)
EndsWith(s, p) == Len(p) <= Len(s) /\ MatchesAt(s, p, Len(s) - Len(p) + 1)

\* p in s
Contains(s, p) == \E i \in 1..(Len(s) + 1) : MatchesAt(s, p, i)

\* s.find(p, start): the least index >= start where p occurs, 0 for Python's
\* -1 (indices from 1, so Python's index is this one minus 1).
Find(s, p, start) ==
    LET hits == {i \in start..(Len(s) + 1) : MatchesAt(s, p, i)}
    IN IF hits = {} THEN 0 ELSE CHOOSE i \in hits : \A j \in hits : i <= j

\* s.replace(p, r): leftmost non-overlapping occurrences, scanning from i.
RECURSIVE ReplaceFrom(_, _, _, _)
ReplaceFrom(s, p, r, i) ==
    IF i > Len(s) THEN <<>>
    ELSE IF MatchesAt(s, p, i) THEN r \o ReplaceFrom(s, p, r, i + Len(p))
    ELSE <<s[i]>> \o ReplaceFrom(s, p, r, i + 1)

Replace(s, p, r) == ReplaceFrom(s, p, r, 1)

\* s.strip(): leading and trailing whitespace removed.
Strip(s) ==
    LET keep == {i \in 1..Len(s) : s[i] \notin SpaceTokens}
    IN IF keep = {} THEN <<>>
       ELSE LET lo == CHOOSE i \in keep : \A j \in keep : i <= j
                hi == CHOOSE i \in keep : \A j \in keep : i >= j
            IN SubSeq(s, lo, hi)

\* s.rstrip()
RStrip(s) ==
    LET keep == {i \in 1..Len(s) : s[i] \notin SpaceTokens}
    IN IF keep = {} THEN <<>>
       ELSE SubSeq(s, 1, CHOOSE i \in keep : \A j \in keep : i >= j)

----------------------------------------------------------------------------
(* Regular expressions of module re, as far as the code uses them.  A      *)
(* pattern is a sequence of nodes; matching is re's backtracking search:   *)
(* Ends lists the end positions of the matches that start at position i,   *)
(* in the order re tries them, so the match re reports is the first.       *)
(* All patterns are compiled with re.IGNORECASE, the extractor's also with *)
(* re.DOTALL.                                                              *)

\* A literal word, matched case-insensitively (w is given in upper case).
Lit(w) == [k |-> "lit", w |-> w]

\* C+ (greedy), C* (greedy), C+? (lazy) for a character class C.
Plus(c) == [k |-> "plus", c |-> c]

Star(c) == [k |-> "star", c |-> c]

LazyPlus(c) == [k |-> "lazy", c |-> c]

\* (?:r)? (greedy) for a pattern r.
Opt(r) == [k |-> "opt", r |-> r]

\* Membership of token t in the character class named c.
InClass(c, t) ==
    CASE c = "\\s" -> t \in SpaceTokens
      [] c = "\\d" -> t \in DigitTokens
      [] c = "\\w" -> IsWord(t)
      [] c = "." -> TRUE
      [] c = "[\\w\\s,\\*\\.]" -> IsWord(t) \/ t \in SpaceTokens \cup {",", "*", "."}
      [] c = "[\\w\\s,\\.]" -> IsWord(t) \/ t \in SpaceTokens \cup {",", "."}
      [] c = "[\\w\\.]" -> IsWord(t) \/ t = "."
      [] c = "[\\w\\s=,\\'\"\\-\\+\\.]" ->
             IsWord(t) \/ t \in SpaceTokens \cup {"=", ",", "'", "\"", "-", "+", "."}
      [] c = "[^)]" -> t # ")"
      [] c = "[a-zA-Z0-9_]" -> IsWord(t)

\* The position after the longest run of class c tokens that starts at i.
RECURSIVE RunEnd(_, _, _)
RunEnd(s, c, i) ==
    IF i <= Len(s) /\ InClass(c, s[i]) THEN RunEnd(s, c, i + 1) ELSE i

RECURSIVE Ends(_, _, _)
RECURSIVE EndsFrom(_, _, _)
\* End positions of one node's matches at i, in re's order of preference.
NodeEnds(node, s, i) ==
    CASE node.k = "lit" ->
           IF i <= Len(s) /\ UpperTok(s[i]) = node.w THEN <<i + 1>> ELSE <<>>
      [] node.k = "plus" ->
           LET e == RunEnd(s, node.c, i) IN [j \in 1..(e - i) |-> e - j + 1]
      [] node.k = "star" ->
           LET e == RunEnd(s, node.c, i) IN [j \in 1..(e - i + 1) |-> e - j + 1]
      [] node.k = "lazy" ->
           LET e == RunEnd(s, node.c, i) IN [j \in 1..(e - i) |-> i + j]
      [] node.k = "opt" -> Ends(node.r, s, i) \o <<i>>

\* End positions of pattern rs matched at i.
Ends(rs, s, i) ==
    IF Len(rs) = 0 THEN <<i>>
    ELSE EndsFrom(Tail(rs), s, NodeEnds(Head(rs), s, i))

\* End positions of pattern rs matched at each of the positions starts.
EndsFrom(rs, s, starts) ==
    IF Len(starts) = 0 THEN <<>>
    ELSE Ends(rs, s, Head(starts)) \o EndsFrom(rs, s, Tail(starts))

\* re.search(rs, s): <<start, end>> of the leftmost match (end exclusive), or
\* <<>> for no match.
Search(rs, s) ==
    LET hits == {i \in 1..Len(s) : Len(Ends(rs, s, i)) > 0}
    IN IF hits = {} THEN <<>>
       ELSE LET i == CHOOSE h \in hits : \A j \in hits : h <= j
            IN <<i, Head(Ends(rs, s, i))>>

----------------------------------------------------------------------------
(* Extractor: extract_sql_query.                                           *)

WhereClause == Opt(<<Plus("\\s"), Lit("WHERE"), Plus("\\s"), LazyPlus(".")>>)

\* The patterns of extract_sql_query, in declaration order.
patterns == <<
    \* SELECT patterns
    <<Lit("SELECT"), Plus("\\s"), Plus("[\\w\\s,\\*\\.]"), Plus("\\s"), Lit("FROM"),
      Plus("\\s"), Plus("[\\w\\s,\\.]"), WhereClause,
      Opt(<<Plus("\\s"), Lit("ORDER"), Plus("\\s"), Lit("BY"), Plus("\\s"), LazyPlus(".")>>),
      Opt(<<Plus("\\s"), Lit("LIMIT"), Plus("\\s"), Plus("\\d")>>), Lit(";")>>,
    <<Lit("SELECT"), Plus("\\s"), LazyPlus("."), Lit(";")>>,
    \* UPDATE patterns
    <<Lit("UPDATE"), Plus("\\s"), Plus("[\\w\\.]"), Plus("\\s"), Lit("SET"), Plus("\\s"),
      Plus("[\\w\\s=,\\'\"\\-\\+\\.]"), WhereClause, Lit(";")>>,
    <<Lit("UPDATE"), Plus("\\s"), LazyPlus("."), Lit(";")>>,
    \* INSERT patterns
    <<Lit("INSERT"), Plus("\\s"), Lit("INTO"), Plus("\\s"), Plus("[\\w\\.]"), Star("\\s"),
      Lit("("), Plus("[^)]"), Lit(")"), Star("\\s"), Lit("VALUES"), Star("\\s"),
      Lit("("), Plus("[^)]"), Lit(")"), Lit(";")>>,
    <<Lit("INSERT"), Plus("\\s"), Lit("INTO"), Plus("\\s"), Plus("[\\w\\.]"), Plus("\\s"),
      Lit("VALUES"), Star("\\s"), Lit("("), Plus("[^)]"), Lit(")"), Lit(";")>>,
    <<Lit("INSERT"), Plus("\\s"), Lit("INTO"), Plus("\\s"), LazyPlus("."), Lit(";")>>,
    \* DELETE patterns
    <<Lit("DELETE"), Plus("\\s"), Lit("FROM"), Plus("\\s"), Plus("[\\w\\.]"), WhereClause,
      Lit(";")>>,
    <<Lit("DELETE"), Plus("\\s"), LazyPlus("."), Lit(";")>> >>

\* The code-fence markers, as tokens.
FenceSql == <<Backtick, Backtick, Backtick, "sql">>

Fence == <<Backtick, Backtick, Backtick>>

\* clean_response: fence markers removed, then stripped.
CleanResponse(text) == Strip(Replace(Replace(text, FenceSql, <<>>), Fence, <<>>))

\* The indices of the patterns that match somewhere in clean.
MatchingPatterns(clean) ==
    {p \in 1..Len(patterns) : Search(patterns[p], clean) # <<>>}

\* FirstPattern as it would be if the loop kept the last match.
FirstPattern_Last(ps) == CHOOSE p \in ps : \A q \in ps : p >= q

\* The pattern whose match the loop returns: the first in declaration order.
FirstPattern(ps) == CHOOSE p \in ps : \A q \in ps : p <= q

sql_keywords == <<"SELECT", "UPDATE", "INSERT", "DELETE">>

\* Fallback as it would be without the appended terminator.
Fallback_NoTerminator(clean) == clean

\* The whole-text fallback: clean_response, with ';' appended if missing.
Fallback(clean) ==
    IF ~EndsWith(RStrip(clean), <<";">>) THEN clean \o <<";">> ELSE clean

\* extract_sql_query(response): the statement, or None.
extract_sql_query(text) ==
    LET clean == CleanResponse(text)
        ps == MatchingPatterns(clean)
    IN IF ps # {}
       THEN LET m == Search(patterns[FirstPattern(ps)], clean)
            IN Strip(SubSeq(clean, m[1], m[2] - 1))
       ELSE IF \E k \in 1..Len(sql_keywords) : StartsWith(Upper(clean), <<sql_keywords[k]>>)
            THEN Fallback(clean)
            ELSE None

----------------------------------------------------------------------------
(* Classifier: identify_query_type.                                        *)

identify_query_type(query) ==
    IF Falsy(query) THEN "UNKNOWN"
    ELSE LET query_upper == Strip(Upper(query))
         IN IF StartsWith(query_upper, <<"SELECT">>) THEN "SELECT"
            ELSE IF StartsWith(query_upper, <<"UPDATE">>) THEN "UPDATE"
            ELSE IF StartsWith(query_upper, <<"INSERT">>) THEN "INSERT"
            ELSE IF StartsWith(query_upper, <<"DELETE">>) THEN "DELETE"
            ELSE "UNKNOWN"

----------------------------------------------------------------------------
(* Intent Reconciler: remove_unwanted_where_clause, validate_query_intent. *)

\* Truncate as it would be if the cut kept the WHERE keyword.
Truncate_KeepsWhere(query, where_pos) ==
    LET clean_query == Strip(SubSeq(query, 1, where_pos))
    IN IF ~EndsWith(clean_query, <<";">>) THEN clean_query \o <<";">> ELSE clean_query

\* clean_query: the text before where_pos, stripped, ';' appended if missing.
Truncate(query, where_pos) ==
    LET clean_query == Strip(SubSeq(query, 1, where_pos - 1))
    IN IF ~EndsWith(clean_query, <<";">>) THEN clean_query \o <<";">> ELSE clean_query

\* remove_unwanted_where_clause as it would be without the test for SELECT.
remove_unwanted_where_clause_AnyKind(query) ==
    IF query = None THEN None
    ELSE LET from_pos == Find(Upper(query), <<"FROM">>, 1)
             where_pos == Find(Upper(query), <<"WHERE">>, IF from_pos # 0 THEN from_pos ELSE 1)
         IN IF where_pos # 0 THEN Truncate(query, where_pos) ELSE query

\* remove_unwanted_where_clause as it would be if it cut at the last WHERE
\* after FROM (rfind) instead of the first.
remove_unwanted_where_clause_LastWhere(query) ==
    IF query = None THEN None
    ELSE IF StartsWith(Upper(query), <<"SELECT">>)
    THEN LET from_pos == Find(Upper(query), <<"FROM">>, 1)
             hits == {i \in from_pos..(Len(query) + 1) :
                        MatchesAt(Upper(query), <<"WHERE">>, i)}
         IN IF from_pos # 0 /\ hits # {}
            THEN Truncate(query, CHOOSE i \in hits : \A j \in hits : i >= j)
            ELSE query
    ELSE query

remove_unwanted_where_clause(query) ==
    IF query = None THEN None
    ELSE IF StartsWith(Upper(query), <<"SELECT">>)
    THEN LET from_pos == Find(Upper(query), <<"FROM">>, 1)
         IN IF from_pos # 0
            THEN LET where_pos == Find(Upper(query), <<"WHERE">>, from_pos)
                 IN IF where_pos # 0 THEN Truncate(query, where_pos) ELSE query
            ELSE query
    ELSE query

\* The filter-indicating vocabulary, each entry as its tokens.
filter_keywords == <<
    <<"whose">>, <<"where">>, <<"with">>, <<"has">>, <<"contains">>,
    <<"starts", " ", "with">>, <<"ends", " ", "with">>, <<"above">>, <<"below">>,
    <<"greater", " ", "than">>, <<"less", " ", "than">>, <<"equal", " ", "to">>,
    <<"is">>, <<"are">>, <<"before">>, <<"after">>, <<"between">>, <<"like">>,
    <<"matches">> >>

\* has_filter_intent as it would be if the vocabulary were never consulted.
has_filter_intent_Never(text) == FALSE

\* IntentSignal: some filter keyword occurs in the lower-cased text.
has_filter_intent(text) ==
    \E k \in 1..Len(filter_keywords) : Contains(Lower(text), filter_keywords[k])

\* "show all" in query_lower or "get all" in query_lower
RequestsAll(text) ==
    \/ Contains(Lower(text), <<"show", " ", "all">>)
    \/ Contains(Lower(text), <<"get", " ", "all">>)

\* "where" in sql_query.lower()
MentionsWhere(query) == Contains(Lower(query), <<"where">>)

\* validate_query_intent as it would be without the test for "show all" /
\* "get all".
validate_query_intent_AnyPhrasing(text, query) ==
    IF Falsy(text) \/ Falsy(query) THEN query
    ELSE IF ~has_filter_intent(text) /\ MentionsWhere(query)
         THEN remove_unwanted_where_clause(query)
         ELSE query

validate_query_intent(text, query) ==
    IF Falsy(text) \/ Falsy(query) THEN query
    ELSE IF RequestsAll(text)
    THEN IF has_filter_intent(text) /\ ~MentionsWhere(query) THEN query
         ELSE IF ~has_filter_intent(text) /\ MentionsWhere(query)
              THEN remove_unwanted_where_clause(query)
              ELSE query
    ELSE query

----------------------------------------------------------------------------
(* Query Sanitizer: the rewrite at the start of                            *)
(* DatabaseConnection.execute_query.                                       *)

\* r'schools\.([a-zA-Z0-9_]+)'
SchoolsPrefix == <<Lit("SCHOOLS"), Lit("."), Plus("[a-zA-Z0-9_]")>>

\* re.sub(SchoolsPrefix, r'\1', s) from position i on: each leftmost match is
\* replaced by its group 1 and the scan goes on after the match.
RECURSIVE SubFrom(_, _)
SubFrom(s, i) ==
    IF i > Len(s) THEN <<>>
    ELSE LET es == Ends(SchoolsPrefix, s, i)
         IN IF Len(es) > 0
            THEN SubSeq(s, i + 2, Head(es) - 1) \o SubFrom(s, Head(es))
            ELSE <<s[i]>> \o SubFrom(s, i + 1)

simplified_query(query) == SubFrom(query, 1)

\* The text handed to cursor.execute for execute_query(original_query).
Sanitize(original_query) ==
    LET query == Replace(original_query, <<Backtick>>, <<>>)
        simplified == simplified_query(query)
    IN IF simplified # original_query THEN simplified ELSE query

----------------------------------------------------------------------------
(* Inputs of the Extractor.                                                *)

RawAlphabet == {"SELECT", "FROM", "INSERT", " ", ";", "x", Backtick}

\* Well-formed statements SELECT cols FROM table [WHERE cond] [ORDER BY col]
\* [LIMIT n]; in upper and in lower case keywords.
WellFormedSelects ==
    {<<kw[1], " ">> \o cols \o <<" ", kw[2], " ", "schools">> \o wh \o ob \o lim \o <<";">> :
        kw \in {<<"SELECT", "FROM">>, <<"select", "from">>},
        cols \in {<<"*">>, <<"name", ",", " ", "rating">>},
        wh \in {<<>>, <<" ", "WHERE", " ", "rating", " ", ">", " ", "3">>,
                <<" ", "WHERE", " ", "name", " ", "=", " ", "'", "a", ";", "b", "'">>},
        ob \in {<<>>, <<" ", "ORDER", " ", "BY", " ", "name">>},
        lim \in {<<>>, <<" ", "LIMIT", " ", "5">>}}

\* What may precede the statement (an opening fence) and follow it (a closing
\* fence, then commentary).
Openings == {<<>>, FenceSql \o <<"\n">>}

Closings == {<<>>, <<"\n">> \o Fence}

Commentaries == {<<>>, <<" ", "This", " ", "returns", " ", "rows", ".">>}

ShapedResponses ==
    {o \o st \o c \o t : o \in Openings, st \in WellFormedSelects,
                         c \in Closings, t \in Commentaries}

\* Generator texts of the kinds the prompt's examples ask for, and texts
\* without a terminator.
ExampleResponses ==
    {<<"INSERT", " ", "INTO", " ", "t", " ", "SELECT", " ", "a", " ", "FROM", " ", "b">>,
     <<"INSERT", " ", "INTO", " ", "t", " ", "SELECT", " ", "a", " ", "FROM", " ", "b", ";">>,
     <<"SELECT", " ", "*", " ", "FROM", " ", "schools">>,
     FenceSql \o <<"\n", "SELECT", " ", "*", " ", "FROM", " ", "schools", " ", "WHERE", " ",
                   "rating", " ", ">", " ", "3", "\n">> \o Fence,
     <<"UPDATE", " ", "schools", " ", "SET", " ", "rating", " ", "=", " ", "5", " ",
       "WHERE", " ", "x", " ", "=", " ", "3", ";">>,
     <<"INSERT", " ", "INTO", " ", "schools", " ", "(", "name", ",", " ", "rating", ")",
       " ", "VALUES", " ", "(", "'", "a", "'", ",", " ", "5", ")", ";">>,
     <<"INSERT", " ", "INTO", " ", "schools", " ", "VALUES", " ", "(", "1", ")", ";">>,
     <<"DELETE", " ", "FROM", " ", "schools", " ", "WHERE", " ", "x", " ", "=", " ", "1", ";">>,
     <<"DELETE", " ", "schools", ";">>,
     <<"This", " ", "returns", " ", "rows", ".">>}

RawTexts == SeqsUpTo(RawAlphabet, MaxRawLen) \cup ShapedResponses \cup ExampleResponses

----------------------------------------------------------------------------
(* The Extractor alone: extract_sql_query applied to a generator text, and *)
(* applied again to its own output.                                        *)

InitExtract ==
    /\ pc = "extract"
    /\ llm_response \in RawTexts
    /\ query_text = <<>>
    /\ candidate = None
    /\ sql_query = None
    /\ submitted = None
    /\ normalized = None
    /\ gen_calls = 0
    /\ exec_calls = 0
    /\ gen_status = "none"
    /\ exec_status = "none"
    /\ response = NoResponse

\* sql_query = extract_sql_query(llm_response)
Extract ==
    /\ pc = "extract"
    /\ sql_query' = extract_sql_query(llm_response)
    /\ pc' = "extracted"
    /\ UNCHANGED <<query_text, llm_response, candidate, submitted, normalized,
                   gen_calls, exec_calls, gen_status, exec_status, response>>

\* The Extractor run on its own output: candidate keeps the first output.
ExtractAgain ==
    /\ pc = "extracted"
    /\ sql_query # None
    /\ candidate' = sql_query
    /\ sql_query' = extract_sql_query(sql_query)
    /\ pc' = "re-extracted"
    /\ UNCHANGED <<query_text, llm_response, submitted, normalized, gen_calls,
                   exec_calls, gen_status, exec_status, response>>

NextExtract == Extract \/ ExtractAgain

SpecExtract == InitExtract /\ [][NextExtract]_vars

----------------------------------------------------------------------------
(* Inputs of the Reconciler.                                               *)

TextAlphabet == {"Show", "get", " ", "all", "whose"}

QueryAlphabet == {"SELECT", "UPDATE", "FROM", "WHERE", ";"}

\* The texts of the prompt's examples, and texts in other letter cases.
ExampleTexts ==
    {<<"Show", " ", "all", " ", "schools">>,
     <<"Show", " ", "all", " ", "schools", " ", "whose", " ", "name", " ", "starts", " ",
       "with", " ", "A">>,
     <<"SHOW", " ", "ALL", " ", "schools">>,
     <<"Get", " ", "all", " ", "th", "is">>,
     <<"Delete", " ", "the", " ", "school">>}

NaturalTexts == SeqsUpTo(TextAlphabet, MaxTextLen) \cup ExampleTexts

ExampleQueries ==
    {<<"SELECT", " ", "*", " ", "FROM", " ", "schools", " ", "WHERE", " ", "rating", " ",
       ">", " ", "3", ";">>,
     <<"SELECT", " ", "*", " ", "FROM", " ", "schools", ";">>,
     <<"select", " ", "name", " ", "from", " ", "schools", " ", "where", " ", "rating",
       " ", ">", " ", "3", " ", "ORDER", " ", "BY", " ", "name", ";">>,
     <<"DELETE", " ", "FROM", " ", "schools", " ", "WHERE", " ", "rating", " ", ">", " ",
       "3", ";">>,
     <<"update", " ", "schools", " ", "SET", " ", "rating", " ", "=", " ", "5", " ",
       "where", " ", "x", " ", "=", " ", "3", ";">>,
     <<"INSERT", " ", "INTO", " ", "t", " ", "SELECT", " ", "a", " ", "FROM", " ", "b", " ",
       "WHERE", " ", "a", " ", "=", " ", "1", ";">>,
     <<"SELECT", " ", "1", " ", "WHERE", " ", "1", " ", "=", " ", "1", ";">>,
     <<"SELECT", " ", "*", " ", "FROM", " ", "schools", " ", "WHERE", " ", "name", " ",
       "=", " ", "(", "SELECT", " ", "name", " ", "FROM", " ", "t", " ", "WHERE", " ",
       "x", " ", "=", " ", "1", ")", ";">>,
     None}

Queries == SeqsUpTo(QueryAlphabet, MaxQueryLen) \cup ExampleQueries

----------------------------------------------------------------------------
(* The Reconciler alone: validate_query_intent applied to a text and a     *)
(* statement.                                                              *)

InitReconcile ==
    /\ pc = "reconcile"
    /\ query_text \in NaturalTexts
    /\ candidate \in Queries
    /\ llm_response = <<>>
    /\ sql_query = None
    /\ submitted = None
    /\ normalized = None
    /\ gen_calls = 0
    /\ exec_calls = 0
    /\ gen_status = "none"
    /\ exec_status = "none"
    /\ response = NoResponse

\* sql_query = validate_query_intent(query_text, candidate)
Reconcile ==
    /\ pc = "reconcile"
    /\ sql_query' = validate_query_intent(query_text, candidate)
    /\ pc' = "reconciled"
    /\ UNCHANGED <<query_text, llm_response, candidate, submitted, normalized,
                   gen_calls, exec_calls, gen_status, exec_status, response>>

\* process_query applies validate_query_intent again to the statement that
\* generate_sql_with_llm returned, which validate_query_intent produced:
\* sql_query = validate_query_intent(query.text, sql_query)
ReconcileAgain ==
    /\ pc = "reconciled"
    /\ submitted' = validate_query_intent(query_text, sql_query)
    /\ pc' = "re-reconciled"
    /\ UNCHANGED <<query_text, llm_response, candidate, sql_query, normalized,
                   gen_calls, exec_calls, gen_status, exec_status, response>>

NextReconcile == Reconcile \/ ReconcileAgain

SpecReconcile == InitReconcile /\ [][NextReconcile]_vars

----------------------------------------------------------------------------
(* Inputs of the Sanitizer.                                                *)

SanAlphabet == {"schools", "Schools", ".", "details", Backtick}

ExampleStatements ==
    {<<"SELECT", " ", "*", " ", "FROM", " ", Backtick, "schools", Backtick, ".",
       Backtick, "details", Backtick, ";">>,
     <<"SELECT", " ", "*", " ", "FROM", " ", "schools", ";">>,
     <<"SELECT", " ", "schools", ".", "schools", ".", "details", " ", "FROM", " ",
       "schools", ";">>}

Statements == SeqsUpTo(SanAlphabet, MaxSanLen) \cup ExampleStatements

----------------------------------------------------------------------------
(* The Sanitizer alone: the rewrite applied to a statement, and applied    *)
(* again to its own output.                                                *)

InitSanitize ==
    /\ pc = "sanitize"
    /\ submitted \in Statements
    /\ query_text = <<>>
    /\ llm_response = <<>>
    /\ candidate = None
    /\ sql_query = None
    /\ normalized = None
    /\ gen_calls = 0
    /\ exec_calls = 0
    /\ gen_status = "none"
    /\ exec_status = "none"
    /\ response = NoResponse

\* normalized = the rewrite of submitted
SanitizeOnce ==
    /\ pc = "sanitize"
    /\ normalized' = Sanitize(submitted)
    /\ pc' = "sanitized"
    /\ UNCHANGED <<query_text, llm_response, candidate, sql_query, submitted,
                   gen_calls, exec_calls, gen_status, exec_status, response>>

\* The rewrite run on its own output: candidate keeps the first output.
SanitizeAgain ==
    /\ pc = "sanitized"
    /\ candidate' = normalized
    /\ normalized' = Sanitize(normalized)
    /\ pc' = "re-sanitized"
    /\ UNCHANGED <<query_text, llm_response, sql_query, submitted, gen_calls,
                   exec_calls, gen_status, exec_status, response>>

NextSanitize == SanitizeOnce \/ SanitizeAgain

SpecSanitize == InitSanitize /\ [][NextSanitize]_vars

----------------------------------------------------------------------------
(* One request: process_query, with generate_sql_with_llm and execute_sql. *)

\* The natural-language texts of the requests; the text may be empty.
RequestTexts == ExampleTexts \cup {<<>>}

\* What execute_query returns: the rows of a row-returning statement (maybe
\* none), or the acknowledgement of another statement.
ExecutionResults == {<<>>, <<"row">>, <<"Query executed successfully">>}

\* str(db_error) for the HTTPException(status_code=400, detail="Database
\* error: ...") that execute_query raises on a pyodbc.Error.
ExecutionErrors == {<<"400: Database error: syntax">>, <<"400: Database error: timeout">>}

GenerationFailed == <<"Failed to generate valid SQL query">>

InitRequest ==
    /\ pc = "start"
    /\ query_text \in RequestTexts
    /\ llm_response = <<>>
    /\ candidate = None
    /\ sql_query = None
    /\ submitted = None
    /\ normalized = None
    /\ gen_calls = 0
    /\ exec_calls = 0
    /\ gen_status = "none"
    /\ exec_status = "none"
    /\ response = NoResponse

\* generate_sql_with_llm when requests.post raises (or response.json does):
\* the exception is caught and None returned.
GenerationRaises ==
    /\ pc = "start"
    /\ gen_calls' = gen_calls + 1
    /\ gen_status' = "raise"
    /\ sql_query' = None
    /\ pc' = "generated"
    /\ UNCHANGED <<query_text, llm_response, candidate, submitted, normalized,
                   exec_calls, exec_status, response>>

\* generate_sql_with_llm when the status code is not 200: None.
GenerationRefused ==
    /\ pc = "start"
    /\ gen_calls' = gen_calls + 1
    /\ gen_status' = "non-200"
    /\ sql_query' = None
    /\ pc' = "generated"
    /\ UNCHANGED <<query_text, llm_response, candidate, submitted, normalized,
                   exec_calls, exec_status, response>>

\* The statement generate_sql_with_llm returns for the extracted statement
\* c: reconciled when there is one, else None.
Generated(text, c) ==
    IF ~Falsy(c)
    THEN LET v == validate_query_intent(text, c) IN IF ~Falsy(v) THEN v ELSE None
    ELSE None

\* generate_sql_with_llm when the status code is 200: the text is stripped,
\* the statement extracted and, if there is one, reconciled with the request.
GenerationAnswers ==
    /\ pc = "start"
    /\ \E text \in RawTexts :
          LET extracted == extract_sql_query(Strip(text))
          IN /\ llm_response' = Strip(text)
             /\ candidate' = extracted
             /\ sql_query' = Generated(query_text, extracted)
    /\ gen_calls' = gen_calls + 1
    /\ gen_status' = "200"
    /\ pc' = "generated"
    /\ UNCHANGED <<query_text, submitted, normalized, exec_calls, exec_status, response>>

\* process_query, `if not sql_query`: the failure response.
ReportNoQuery ==
    /\ pc = "generated"
    /\ Falsy(sql_query)
    /\ response' = SQLResponse(<<>>, FALSE, None, GenerationFailed)
    /\ pc' = "done"
    /\ UNCHANGED <<query_text, llm_response, candidate, sql_query, submitted,
                   normalized, gen_calls, exec_calls, gen_status, exec_status>>

\* SubmitQuery as it would be without the `if not sql_query` return before it.
SubmitQuery_Unguarded ==
    /\ pc = "generated"
    /\ sql_query' = validate_query_intent(query_text, sql_query)
    /\ submitted' = sql_query'
    /\ normalized' = Sanitize(sql_query')
    /\ exec_calls' = exec_calls + 1
    /\ pc' = "executing"
    /\ UNCHANGED <<query_text, llm_response, candidate, gen_calls, gen_status,
                   exec_status, response>>

\* process_query: the additional validation step, then execute_sql is called
\* with the statement; execute_query rewrites it for the driver.
SubmitQuery ==
    /\ pc = "generated"
    /\ ~Falsy(sql_query)
    /\ sql_query' = validate_query_intent(query_text, sql_query)
    /\ submitted' = sql_query'
    /\ normalized' = Sanitize(sql_query')
    /\ exec_calls' = exec_calls + 1
    /\ pc' = "executing"
    /\ UNCHANGED <<query_text, llm_response, candidate, gen_calls, gen_status,
                   exec_status, response>>

\* The results process_query reports: the acknowledgement for a statement
\* that is no SELECT and returned nothing.
Feedback(kind, results) ==
    IF kind # "SELECT" /\ Len(results) = 0
    THEN <<kind \o " operation completed successfully">>
    ELSE results

\* process_query when execute_sql returns.
ExecutionReturns ==
    /\ pc = "executing"
    /\ \E results \in ExecutionResults :
          response' = SQLResponse(sql_query, TRUE,
                                  Feedback(identify_query_type(sql_query), results), None)
    /\ exec_status' = "returned"
    /\ pc' = "done"
    /\ UNCHANGED <<query_text, llm_response, candidate, sql_query, submitted,
                   normalized, gen_calls, exec_calls, gen_status>>

\* ErrorResponse as it would be if the handler swallowed the error.
ErrorResponse_Swallowed(q, message) == SQLResponse(q, TRUE, <<>>, None)

\* The response of process_query's `except Exception as db_error`.
ErrorResponse(q, message) == SQLResponse(q, FALSE, None, message)

\* process_query when execute_sql raises.
ExecutionRaises ==
    /\ pc = "executing"
    /\ \E message \in ExecutionErrors : response' = ErrorResponse(sql_query, message)
    /\ exec_status' = "raised"
    /\ pc' = "done"
    /\ UNCHANGED <<query_text, llm_response, candidate, sql_query, submitted,
                   normalized, gen_calls, exec_calls, gen_status>>

Next ==
    \/ GenerationRaises
    \/ GenerationRefused
    \/ GenerationAnswers
    \/ ReportNoQuery
    \/ SubmitQuery
    \/ ExecutionReturns
    \/ ExecutionRaises

Spec == InitRequest /\ [][Next]_vars

----------------------------------------------------------------------------
(* The claims.  What a claim says of a text is stated here on the text     *)
(* itself, not through the operators that model the code.                  *)

\* The text says "show all" or "get all", in any letter case.
SaysAll(text) ==
    \E i \in 1..Len(text) :
        /\ i + 2 <= Len(text)
        /\ LowerTok(text[i]) \in {"show", "get"}
        /\ text[i + 1] = " "
        /\ LowerTok(text[i + 2]) = "all"

\* The text holds a filter-indicating word or phrase, in any letter case.
SaysFilter(text) ==
    \E k \in 1..Len(filter_keywords) : \E i \in 1..Len(text) :
        MatchesAt(Lower(text), filter_keywords[k], i)

\* The statement begins with the keyword kw, in any letter case.
BeginsWith(q, kw) == q # None /\ Len(q) > 0 /\ UpperTok(q[1]) = kw

\* The positions of the keyword kw in the statement, in any letter case.
Positions(q, kw) == {i \in 1..Len(q) : UpperTok(q[i]) = kw}

\* The statement has a filter clause: a WHERE at or after its first FROM.
\* FilterAt is the position of the first such WHERE.
HasFilter(q) ==
    /\ q # None
    /\ \E f \in Positions(q, "FROM") : \E w \in Positions(q, "WHERE") : f < w

FirstFrom(q) == CHOOSE f \in Positions(q, "FROM") : \A g \in Positions(q, "FROM") : f <= g

FilterAt(q) ==
    CHOOSE w \in Positions(q, "WHERE") :
        /\ w > FirstFrom(q)
        /\ \A v \in Positions(q, "WHERE") : v > FirstFrom(q) => w <= v

\* The statement is terminated and holds no code-fence marker.
Terminated(q) == Len(q) > 0 /\ q[Len(q)] = ";" /\ ~Contains(q, Fence)

\* C1: the Sanitizer is idempotent: the rewrite applied to its own output
\* gives that output again, for every statement.
C1_SanitizerIdempotent == pc = "re-sanitized" => normalized = candidate

\* C2: extraction is idempotent: the Extractor applied to a statement it
\* returned gives that statement again, on the pattern path and on the
\* whole-text fallback path.
C2_ExtractionIdempotent == pc = "re-extracted" => sql_query = candidate

\* C3: the Reconciler returns a statement that begins with UPDATE, INSERT or
\* DELETE unchanged, whatever the text; only a statement that begins with
\* SELECT is ever changed.
C3_WriteStatementsUnchanged ==
    pc = "reconciled" =>
        /\ (BeginsWith(candidate, "UPDATE") \/ BeginsWith(candidate, "INSERT")
              \/ BeginsWith(candidate, "DELETE")) => sql_query = candidate
        /\ sql_query # candidate => BeginsWith(candidate, "SELECT")

\* A write statement with a WHERE went through the Reconciler with a text
\* that says "show all" and has no filter word.
C3_Witness ==
    /\ pc = "reconciled"
    /\ BeginsWith(candidate, "DELETE")
    /\ Positions(candidate, "WHERE") # {}
    /\ SaysAll(query_text)
    /\ ~SaysFilter(query_text)
    /\ sql_query = candidate

\* C4: when the text says neither "show all" nor "get all", or the text or
\* the statement is absent or empty, the Reconciler returns the statement
\* unchanged.
C4_NoOpWithoutRequestAll ==
    pc = "reconciled" =>
        ((~SaysAll(query_text) \/ Falsy(query_text) \/ Falsy(candidate))
            => sql_query = candidate)

\* A SELECT with a filter clause went through the Reconciler with a text
\* that has no filter word and does not say "show all" or "get all".
C4_Witness ==
    /\ pc = "reconciled"
    /\ query_text # <<>>
    /\ ~SaysAll(query_text)
    /\ ~SaysFilter(query_text)
    /\ BeginsWith(candidate, "SELECT")
    /\ HasFilter(candidate)
    /\ sql_query = candidate

\* What C5 says the Reconciler returns: the text before the filter clause,
\* trimmed, terminated with ';'.
Stripped(q) ==
    LET before == Strip(SubSeq(q, 1, FilterAt(q) - 1))
    IN IF Len(before) > 0 /\ before[Len(before)] = ";" THEN before ELSE before \o <<";">>

\* C5: when the text says "show all" or "get all" and holds no filter word,
\* and the statement begins with SELECT and has a filter clause (a WHERE at
\* or after its FROM), the Reconciler returns the text before the first such
\* WHERE, trimmed and terminated with ';', which has no filter clause; for
\* "Show all schools" and SELECT * FROM schools WHERE rating > 3; that is
\* SELECT * FROM schools;
C5_StripsFilterClause ==
    pc = "reconciled" =>
        /\ (SaysAll(query_text) /\ ~SaysFilter(query_text)
              /\ BeginsWith(candidate, "SELECT") /\ HasFilter(candidate))
            => (sql_query = Stripped(candidate) /\ ~HasFilter(sql_query))
        /\ (query_text = <<"Show", " ", "all", " ", "schools">>
              /\ candidate = <<"SELECT", " ", "*", " ", "FROM", " ", "schools", " ", "WHERE",
                               " ", "rating", " ", ">", " ", "3", ";">>)
            => sql_query = <<"SELECT", " ", "*", " ", "FROM", " ", "schools", ";">>

\* The example of C5 went through the Reconciler.
C5_Witness ==
    /\ pc = "reconciled"
    /\ query_text = <<"Show", " ", "all", " ", "schools">>
    /\ candidate = <<"SELECT", " ", "*", " ", "FROM", " ", "schools", " ", "WHERE", " ",
                     "rating", " ", ">", " ", "3", ";">>
    /\ sql_query # candidate

\* C6: when the text holds a filter-indicating word, the Reconciler returns
\* the statement unchanged, with or without a WHERE in it.
C6_FilterIntentKeepsQuery ==
    pc = "reconciled" => (SaysFilter(query_text) => sql_query = candidate)

\* A text that says "show all" and holds a filter word went through the
\* Reconciler with a SELECT that has a filter clause.
C6_Witness ==
    /\ pc = "reconciled"
    /\ SaysAll(query_text)
    /\ SaysFilter(query_text)
    /\ BeginsWith(candidate, "SELECT")
    /\ HasFilter(candidate)
    /\ sql_query = candidate

\* C7: for a text made of an optional opening fence, a well-formed
\* SELECT ... FROM ... ; statement, an optional closing fence and optional
\* commentary, the Extractor returns exactly the statement.
C7_ReturnsTheStatement ==
    pc = "extracted" =>
        \A o \in Openings, st \in WellFormedSelects, c \in Closings, t \in Commentaries :
            llm_response = o \o st \o c \o t => sql_query = st

\* C8: every statement the Extractor returns, every statement the Reconciler
\* returns from it, and the statement handed to execute_sql end with ';'
\* and hold no code-fence marker.
C8_CandidateTerminated ==
    /\ candidate # None => Terminated(candidate)
    /\ sql_query # None => Terminated(sql_query)
    /\ submitted # None => Terminated(submitted)

\* A fenced text without a terminator was accepted by the whole-text
\* fallback, and the Reconciler changed the statement before execute_sql.
C8_Witness ==
    /\ pc = "executing"
    /\ Contains(llm_response, Fence)
    /\ ~Contains(llm_response, <<";">>)
    /\ candidate # None
    /\ submitted # candidate

\* C9: per request the generation collaborator is called exactly once and
\* execute_sql at most once, only after generation answered 200 with a text
\* the Extractor accepted; when generation raises, answers another status
\* or its text yields no statement, execute_sql is not called and the
\* response is sql_query = '', is_valid = False, error = 'Failed to
\* generate valid SQL query'.
C9_CollaboratorOrder ==
    /\ gen_calls = (IF pc = "start" THEN 0 ELSE 1)
    /\ exec_calls \in {0, 1}
    /\ exec_calls = 1 => (gen_calls = 1 /\ gen_status = "200" /\ candidate # None)
    /\ (pc = "done" /\ (gen_status \in {"raise", "non-200"} \/ candidate = None))
        => /\ exec_calls = 0
           /\ response = SQLResponse(<<>>, FALSE, None,
                                     <<"Failed to generate valid SQL query">>)

\* Generation answered 200 with a text that holds no statement, and the
\* request ended.
C9_Witness ==
    /\ pc = "done"
    /\ gen_status = "200"
    /\ Len(llm_response) > 0
    /\ candidate = None
    /\ exec_calls = 0

\* C10: when execute_sql raises, the response has is_valid = False, a
\* non-empty error, no results and the statement submitted for execution;
\* is_valid = True is returned only when execute_sql returned.
C10_ExecutionErrorReported ==
    pc = "done" =>
        /\ exec_status = "raised"
            => /\ response.is_valid = FALSE
               /\ response.error # None /\ response.error # <<>>
               /\ response.results = None
               /\ response.sql_query = submitted
        /\ response.is_valid = TRUE => exec_status = "returned"

\* execute_sql raised for a generated statement and the request ended.
C10_Witness ==
    /\ pc = "done"
    /\ exec_status = "raised"
    /\ submitted # None
    /\ response.sql_query = submitted

\* A semicolon-terminated SELECT fragment of the text: SELECT, whitespace,
\* at least one more character, and a ';' after that.
HasSelectFragment(text) ==
    \E i \in 1..Len(text) : \E k \in 1..Len(text) :
        /\ UpperTok(text[i]) = "SELECT"
        /\ i + 1 <= Len(text) /\ text[i + 1] \in SpaceTokens
        /\ k >= i + 3
        /\ text[k] = ";"

\* The match of pattern p in the text, stripped.
MatchOf(p, text) ==
    LET m == Search(patterns[p], text) IN Strip(SubSeq(text, m[1], m[2] - 1))

\* C11: the Extractor returns the match of the first pattern, in declaration
\* order, that matches anywhere in the cleaned text, wherever the matches of
\* later patterns start; hence when the cleaned text holds a
\* semicolon-terminated SELECT fragment the statement returned begins with
\* SELECT.
C11_DeclarationOrderWins ==
    pc = "extracted" =>
        LET clean == CleanResponse(llm_response)
        IN /\ \A p \in 1..Len(patterns) :
                  (/\ Search(patterns[p], clean) # <<>>
                   /\ \A q \in 1..(p - 1) : Search(patterns[q], clean) = <<>>)
                  => sql_query = MatchOf(p, clean)
           /\ HasSelectFragment(clean) => BeginsWith(sql_query, "SELECT")

\* An INSERT statement that starts the text and encloses a SELECT statement
\* was extracted: an INSERT pattern and a SELECT pattern both match, the
\* INSERT match starts earlier.
C11_Witness ==
    /\ pc = "extracted"
    /\ BeginsWith(llm_response, "INSERT")
    /\ Search(patterns[7], CleanResponse(llm_response)) # <<>>
    /\ Search(patterns[1], CleanResponse(llm_response)) # <<>>
    /\ Search(patterns[7], CleanResponse(llm_response))[1]
         < Search(patterns[1], CleanResponse(llm_response))[1]
    /\ BeginsWith(sql_query, "SELECT")

\* C12: reconciliation is idempotent: for every text t and statement q,
\* validate_query_intent(t, validate_query_intent(t, q)) equals
\* validate_query_intent(t, q), so the second application in process_query
\* leaves the statement of the first application as it is.
C12_ReconciliationIdempotent ==
    pc = "re-reconciled" =>
        /\ sql_query = validate_query_intent(query_text, candidate)
        /\ submitted = validate_query_intent(query_text, sql_query)
        /\ submitted = sql_query

\* The first application stripped the filter clause of a statement that
\* holds two WHERE keywords, and the second application changed nothing.
C12_Witness ==
    /\ pc = "re-reconciled"
    /\ sql_query # candidate
    /\ Cardinality(Positions(candidate, "WHERE")) >= 2
    /\ submitted = sql_query

====
